---- MODULE Spec2Model ----
(***************************************************************************)
(* DesignWare DMA driver (src/drivers/dw-dma.c): channel pool, descriptor  *)
(* chain builder, start/stop/drain, the FIFO drain work and the interrupt  *)
(* handler, modelled as a state machine over struct dma_pdata and the      *)
(* DMAC registers the driver writes.                                       *)
(***************************************************************************)
EXTENDS Integers, Sequences, FiniteSets, TLC

(* ------------------------------------------------------------------ *)
(* Bounds of the model                                                 *)
(* ------------------------------------------------------------------ *)

\* Size of the channel pool.  The driver is built with 8 (dw-dma.c:45); the
\* model runs the same loops over a smaller pool.
DW_MAX_CHAN == 2

\* Largest number of scatter-gather elements of one dma_sg_config.
MaxSegs == 2

\* Cap on chan[].desc_count (the driver's counter is an unbounded int).
MaxDescCount == 3

\* Number of driver entry points (client calls, runs of the drain work,
\* interrupts) a behaviour makes after probe.
MaxCalls == 6

\* Number of entry points a behaviour of the chain-builder specification
\* makes after probe.
MaxConfigCalls == 4

Chans == 0 .. (DW_MAX_CHAN - 1)

(* ------------------------------------------------------------------ *)
(* Constants of the driver and of the headers it includes              *)
(* ------------------------------------------------------------------ *)

\* reef/dma.h: channel status values.  probe() zeroes the private data and
\* channel_get() must then find every channel free, so FREE is 0; DRAINING
\* is used as a bit flag by the drain work (status & DRAINING).
DMA_STATUS_FREE == 0
DMA_STATUS_IDLE == 1
DMA_STATUS_RUNNING == 2
DMA_STATUS_DRAINING == 4

\* errno.h
ENODEV == 19

\* a NULL callback or context pointer
NULL == "NULL"

\* DMA_DIR_* of reef/dma.h
DMA_DIR_MEM_TO_MEM == "MEM_TO_MEM"
DMA_DIR_MEM_TO_DEV == "MEM_TO_DEV"
DMA_DIR_DEV_TO_MEM == "DEV_TO_MEM"
DMA_DIR_DEV_TO_DEV == "DEV_TO_DEV"

Directions ==
  {DMA_DIR_MEM_TO_MEM, DMA_DIR_MEM_TO_DEV, DMA_DIR_DEV_TO_MEM, DMA_DIR_DEV_TO_DEV}

\* config-low bits (dw-dma.c:97-99)
DW_CFG_CH_SUSPEND == "CH_SUSPEND"
DW_CFG_CH_DRAIN == "CH_DRAIN"
DW_CFG_CH_FIFO_EMPTY == "FIFO_EMPTY"

\* the five interrupt classes of the DMAC (dw-dma.c:72-76)
IntClasses == {"TFR", "BLOCK", "SRC_TRAN", "DST_TRAN", "ERR"}

(* ------------------------------------------------------------------ *)
(* Bit arithmetic on the status byte                                   *)
(* ------------------------------------------------------------------ *)

RECURSIVE BitAnd(_, _)
BitAnd(a, b) ==
  IF a = 0 \/ b = 0 THEN 0
  ELSE (IF a % 2 = 1 /\ b % 2 = 1 THEN 1 ELSE 0) + 2 * BitAnd(a \div 2, b \div 2)

\* a | b
BitOr(a, b) == a + b - BitAnd(a, b)

\* a & ~b
BitClear(a, b) == a - BitAnd(a, b)

(* ------------------------------------------------------------------ *)
(* State                                                               *)
(* ------------------------------------------------------------------ *)

VARIABLES
  status,        \* chan[i].status
  lli,           \* chan[i].lli: the descriptor array, <<>> for a NULL pointer
  desc_count,    \* chan[i].desc_count
  cfg_lo,        \* chan[i].cfg_lo, the shadow of config-low (a set of bits)
  cfg_hi,        \* chan[i].cfg_hi, the shadow of config-high
  cb,            \* chan[i].cb
  cb_data,       \* chan[i].cb_data
  work_pending,  \* p->work is queued on the default work queue
  chan_en,       \* DW_DMA_CHAN_EN: the channels whose enable bit is set
  int_unmasked,  \* DW_MASK_*: per interrupt class, the unmasked channels
  cfg_low_reg,   \* DW_CFG_LOW(i): the writable bits that are set
  halted,        \* the DSP took a fatal exception
  owned,         \* channels a client got from channel_get and has not put back
                 \* (clients call the per-channel entry points only on these)
  boot_only,     \* only channel_get has been called since probe
  boot_gets,     \* while boot_only: what those calls returned, in order
  ncalls,        \* entry points run since probe
  last,          \* the last driver entry point that ran: what it returned
                 \* and the register accesses and calls it made, in order
  budget,        \* the number of entry points the behaviour runs; 0: no
                 \* limit, and the entry points are not counted
  fifo_empty,    \* the channels whose FIFO the DMAC reports empty
  pc,            \* per caller thread: where it is inside an entry point
  registered     \* per channel: the <<cb, data>> pairs its present owner has
                 \* handed to set_cb

chan_vars == <<status, lli, desc_count, cfg_lo, cfg_hi, cb, cb_data>>
hw_vars == <<chan_en, int_unmasked, cfg_low_reg>>
ghost_vars == <<owned, boot_only, boot_gets, ncalls>>
thread_vars == <<fifo_empty, pc, registered>>
vars == <<chan_vars, work_pending, hw_vars, halted, ghost_vars, last, budget,
          thread_vars>>

\* one register access, assignment or call made by an entry point
Ev(e, c, v) == [e |-> e, c |-> c, v |-> v]

\* an entry point that ran to its return
Call(op, ch, ret, ev) ==
  [op |-> op, ch |-> ch, ret |-> ret, ev |-> ev, fault |-> FALSE]

\* an entry point that never returned: the DSP faulted inside it
Fault(op, ch, ev) ==
  [op |-> op, ch |-> ch, ret |-> 0, ev |-> ev, fault |-> TRUE]

(* ------------------------------------------------------------------ *)
(* Register words and the io_reg_* primitives                          *)
(* ------------------------------------------------------------------ *)

\* A word of a mask or channel-enable register is a set of bits: the value
\* bit <<"EN", c>> (bit c) and its write-enable <<"WE", c>> (bit 8 + c).
INT_MASK(chan) == {<<"WE", chan>>}
INT_UNMASK(chan) == {<<"WE", chan>>, <<"EN", chan>>}
CHAN_ENABLE(chan) == {<<"WE", chan>>, <<"EN", chan>>}
CHAN_DISABLE(chan) == {<<"WE", chan>>}

\* dw_dma_setup writes 0x0000ff00: every write-enable, every value bit 0
MASK_ALL == {<<"WE", c>> : c \in Chans}

\* What a write of `word` leaves in a register with write-enable bits: a
\* value bit changes only when its write-enable bit is written as 1.
WeWrite(old, word) ==
  {c \in Chans : IF <<"WE", c>> \in word THEN <<"EN", c>> \in word ELSE c \in old}

\* What a read of such a register returns: the value bits.
WeRead(old) == {<<"EN", c>> : c \in old}

\* io_reg_update_bits(reg, mask, value) of reef/io.h:
\*   io_reg_write(reg, (io_reg_read(reg) & ~mask) | (value & mask))
io_reg_update_bits(old, mask, value) == (old \ mask) \cup (value \cap mask)

\* A read of DW_CFG_LOW(i): the writable bits, and the read-only FIFO_EMPTY
\* status of the hardware for the channels in `empty`.
CfgLowRead(i, empty) ==
  cfg_low_reg[i] \cup (IF i \in empty THEN {DW_CFG_CH_FIFO_EMPTY} ELSE {})

(* ------------------------------------------------------------------ *)
(* probe                                                               *)
(* ------------------------------------------------------------------ *)

\* the mask registers after dw_dma_setup
dw_dma_setup == [k \in IntClasses |-> WeWrite({}, MASK_ALL)]

\* dw_dma_probe: bzero of the private data, setup, work_init, irq enabled
dw_dma_probe ==
  /\ status = [i \in Chans |-> 0]
  /\ lli = [i \in Chans |-> <<>>]
  /\ desc_count = [i \in Chans |-> 0]
  /\ cfg_lo = [i \in Chans |-> {}]
  /\ cfg_hi = [i \in Chans |-> 0]
  /\ cb = [i \in Chans |-> NULL]
  /\ cb_data = [i \in Chans |-> NULL]
  /\ work_pending = FALSE
  /\ int_unmasked = dw_dma_setup
  /\ last = Call("probe", -1, 0, <<>>)

\* the DMAC out of reset: no channel enabled, nothing suspended, FIFOs empty
HwReset ==
  /\ chan_en = {}
  /\ cfg_low_reg = [i \in Chans |-> {}]
  /\ fifo_empty = Chans

\* the threads that call the driver
Threads == {"t1", "t2"}

\* a thread that is not inside the driver and holds no channel
IdlePc == [at |-> "idle", i |-> 0, f |-> NULL, data |-> NULL, held |-> {}]

\* the device after dw_dma_probe, no client has called the driver yet
Probed ==
  /\ dw_dma_probe
  /\ HwReset
  /\ halted = FALSE
  /\ owned = {}
  /\ boot_only = TRUE
  /\ boot_gets = <<>>
  /\ ncalls = 0
  /\ pc = [t \in Threads |-> IdlePc]
  /\ registered = [i \in Chans |-> {}]

Init ==
  /\ Probed
  /\ budget = MaxCalls

\* a thread, the work queue or the interrupt controller calls an entry
\* point: the DSP is running and the behaviour has calls left
EnterCall ==
  /\ ~halted
  /\ IF budget > 0
       THEN ncalls < budget /\ ncalls' = ncalls + 1
       ELSE UNCHANGED ncalls
  /\ UNCHANGED budget

\* an entry point that runs from call to return with nothing in between
Enter ==
  /\ EnterCall
  /\ UNCHANGED thread_vars

\* bookkeeping of an entry point other than channel_get
NotBoot == boot_only' = FALSE /\ boot_gets' = <<>>

(* ------------------------------------------------------------------ *)
(* channel_get / channel_put                                           *)
(* ------------------------------------------------------------------ *)

\* ChannelScan with the test for a free channel lost: the scan claims the
\* first channel that is not draining.
RECURSIVE ChannelScan_AnyNotDraining(_, _)
ChannelScan_AnyNotDraining(st, i) ==
  IF i >= DW_MAX_CHAN THEN DW_MAX_CHAN
  ELSE IF st[i] = DMA_STATUS_DRAINING THEN ChannelScan_AnyNotDraining(st, i + 1)
  ELSE i

\* ChannelScan with the loop bound off by one: the last channel is never
\* looked at.
RECURSIVE ChannelScan_ShortLoop(_, _)
ChannelScan_ShortLoop(st, i) ==
  IF i >= DW_MAX_CHAN - 1 THEN DW_MAX_CHAN
  ELSE IF st[i] = DMA_STATUS_DRAINING THEN ChannelScan_ShortLoop(st, i + 1)
  ELSE IF st[i] = DMA_STATUS_FREE THEN i
  ELSE ChannelScan_ShortLoop(st, i + 1)

\* The scan of dw_dma_channel_get from index i on: the index it claims, or
\* DW_MAX_CHAN when the loop runs off the end.
RECURSIVE ChannelScan(_, _)
ChannelScan(st, i) ==
  IF i >= DW_MAX_CHAN THEN DW_MAX_CHAN
  ELSE IF st[i] = DMA_STATUS_DRAINING THEN ChannelScan(st, i + 1)
  ELSE IF st[i] = DMA_STATUS_FREE THEN i
  ELSE ChannelScan(st, i + 1)

\* the five interrupt-clear writes of channel_get
ClearWrites(i) ==
  << Ev("DW_CLEAR_TFR", i, {i}), Ev("DW_CLEAR_BLOCK", i, {i}),
     Ev("DW_CLEAR_SRC_TRAN", i, {i}), Ev("DW_CLEAR_DST_TRAN", i, {i}),
     Ev("DW_CLEAR_ERR", i, {i}) >>

dw_dma_channel_get ==
  /\ Enter
  /\ LET i == ChannelScan(status, 0) IN
       /\ IF i < DW_MAX_CHAN
            THEN /\ status' = [status EXCEPT ![i] = DMA_STATUS_IDLE]
                 /\ owned' = owned \cup {i}
                 /\ last' = Call("channel_get", -1, i, ClearWrites(i))
            ELSE /\ UNCHANGED <<status, owned>>
                 /\ last' = Call("channel_get", -1, -ENODEV, <<>>)
       /\ IF boot_only /\ Len(boot_gets) <= DW_MAX_CHAN
            THEN /\ boot_gets' =
                      Append(boot_gets, IF i < DW_MAX_CHAN THEN i ELSE -ENODEV)
                 /\ UNCHANGED boot_only
            ELSE NotBoot
  /\ UNCHANGED <<lli, desc_count, cfg_lo, cfg_hi, cb, cb_data>>
  /\ UNCHANGED <<work_pending, hw_vars, halted>>

dw_dma_channel_put(channel) ==
  /\ Enter
  /\ channel \in owned
  /\ status' = [status EXCEPT ![channel] = DMA_STATUS_FREE]
  /\ cb' = [cb EXCEPT ![channel] = NULL]
  /\ owned' = owned \ {channel}
  /\ last' = Call("channel_put", channel, 0, <<>>)
  /\ NotBoot
  /\ UNCHANGED <<lli, desc_count, cfg_lo, cfg_hi, cb_data>>
  /\ UNCHANGED <<work_pending, hw_vars, halted>>

(* ------------------------------------------------------------------ *)
(* set_config: the descriptor chain builder                            *)
(* ------------------------------------------------------------------ *)

\* control-low and config fields of reef/dw-dma.h, as named bits
DWC_CTLL_FC(dir) == {"FC_" \o dir}
DWC_CTLL_SRC_WIDTH(w) == {"SRC_WIDTH_" \o w}
DWC_CTLL_DST_WIDTH(w) == {"DST_WIDTH_" \o w}
DWC_CTLL_SRC_MSIZE(m) == {"SRC_MSIZE_" \o m}
DWC_CTLL_DST_MSIZE(m) == {"DST_MSIZE_" \o m}
DWC_CTLL_SRC_INC == {"SRC_INC"}
DWC_CTLL_DST_INC == {"DST_INC"}
DWC_CTLL_SRC_FIX == {"SRC_FIX"}
DWC_CTLL_DST_FIX == {"DST_FIX"}
DWC_CTLL_LLP_S_EN == {"LLP_S_EN"}
DWC_CTLL_LLP_D_EN == {"LLP_D_EN"}
DWC_CTLH_DONE == {"DONE"}
DWC_CFGL_RELOAD_SAR == {"RELOAD_SAR"}
DWC_CFGL_RELOAD_DAR == {"RELOAD_DAR"}
\* (x) << 7 and (x) << 11
DWC_CFGH_SRC_PER(x) == x * 128
DWC_CFGH_DST_PER(x) == x * 2048

\* the address of descriptor idx (from 0) of the array of a channel
LliAddr(channel, idx) == 256 * (channel + 1) + idx

\* What rmalloc'ed memory holds before the driver writes it: rmalloc does
\* not promise zeroed memory, so either all zeroes or stale bits.
ZeroDesc == [sar |-> 0, dar |-> 0, llp |-> 0, ctrl_lo |-> {}, ctrl_hi |-> {}]
StaleDesc ==
  [sar |-> -1, dar |-> -1, llp |-> -1,
   ctrl_lo |-> DWC_CTLL_SRC_FIX \cup DWC_CTLL_DST_INC \cup DWC_CTLL_LLP_S_EN,
   ctrl_hi |-> DWC_CTLH_DONE]
Fills == {ZeroDesc, StaleDesc}

\* the scatter-gather element k (from 1) of a request
SgElem(k) == [src |-> 4096 + k, dest |-> 8192 + k]

\* the requests of the clients: one direction, one width pair, n elements
Configs(dirs) ==
  { [direction |-> d, src_width |-> "2", dest_width |-> "2",
     elem_list |-> [k \in 1 .. n |-> SgElem(k)]] :
    d \in dirs, n \in 1 .. MaxSegs }

\* the list_for_each of dw-dma.c:287-289
CountElems(config) == Len(config.elem_list)

\* dw-dma.c:303-321: the SINC/DINC flags the switch on the direction ors in
DirFlags(direction) ==
  CASE direction = DMA_DIR_MEM_TO_MEM -> DWC_CTLL_SRC_INC \cup DWC_CTLL_DST_INC
    [] direction = DMA_DIR_MEM_TO_DEV -> DWC_CTLL_SRC_INC \cup DWC_CTLL_DST_FIX
    [] direction = DMA_DIR_DEV_TO_MEM -> DWC_CTLL_SRC_FIX \cup DWC_CTLL_DST_INC
    [] direction = DMA_DIR_DEV_TO_DEV -> DWC_CTLL_SRC_FIX \cup DWC_CTLL_DST_FIX
    [] OTHER -> {}

\* dw-dma.c:294-323: control words of the first lli
FirstLli(d, config) ==
  LET base == d.ctrl_lo \cup DWC_CTLL_FC(config.direction)
                \cup DWC_CTLL_SRC_WIDTH(config.src_width)
                \cup DWC_CTLL_DST_WIDTH(config.dest_width)
                \cup DWC_CTLL_SRC_MSIZE("0") \cup DWC_CTLL_DST_MSIZE("0")
  IN [d EXCEPT !.ctrl_lo = base \cup DirFlags(config.direction),
               !.ctrl_hi = d.ctrl_hi \ DWC_CTLH_DONE]

\* dw-dma.c:303-321: the peripheral ids or'ed into chan[].cfg_hi
CfgHi(old, config) ==
  CASE config.direction = DMA_DIR_MEM_TO_DEV -> BitOr(old, DWC_CFGH_DST_PER(0))
    [] config.direction = DMA_DIR_DEV_TO_MEM -> BitOr(old, DWC_CFGH_SRC_PER(0))
    [] config.direction = DMA_DIR_DEV_TO_DEV ->
         BitOr(old, BitOr(DWC_CFGH_SRC_PER(0), DWC_CFGH_DST_PER(0)))
    [] OTHER -> old

\* FillLli with the else branch of dw-dma.c:336-340 lost: the last
\* descriptor keeps the link pointer and the link flags the memory held.
FillLli_NoTerminator(d, channel, config, k) ==
  LET n == Len(config.elem_list)
      e == config.elem_list[k]
  IN IF k < n
       THEN [d EXCEPT !.sar = e.src, !.dar = e.dest,
                      !.llp = LliAddr(channel, k),
                      !.ctrl_lo = d.ctrl_lo \cup DWC_CTLL_LLP_S_EN
                                    \cup DWC_CTLL_LLP_D_EN]
       ELSE [d EXCEPT !.sar = e.src, !.dar = e.dest]

\* dw-dma.c:328-343: one pass of the list_for_each_safe, on descriptor k
\* (from 1) of n elements
FillLli(d, channel, config, k) ==
  LET n == Len(config.elem_list)
      e == config.elem_list[k]
  IN IF k < n
       THEN [d EXCEPT !.sar = e.src, !.dar = e.dest,
                      !.llp = LliAddr(channel, k),
                      !.ctrl_lo = d.ctrl_lo \cup DWC_CTLL_LLP_S_EN
                                    \cup DWC_CTLL_LLP_D_EN]
       ELSE [d EXCEPT !.sar = e.src, !.dar = e.dest,
                      !.llp = 0,
                      !.ctrl_lo = d.ctrl_lo \ (DWC_CTLL_LLP_S_EN
                                    \cup DWC_CTLL_LLP_D_EN)]

\* the array set_config leaves in chan[].lli: count descriptors of
\* rmalloc'ed memory, the first Len(elem_list) of them written
BuildLli(channel, config, count, fill) ==
  LET n == Len(config.elem_list)
      raw == [k \in 1 .. count |-> fill]
      first == [raw EXCEPT ![1] = FirstLli(raw[1], config)]
  IN [k \in 1 .. count |->
        IF k <= n THEN FillLli(first[k], channel, config, k) ELSE first[k]]

\* the size of the array set_config asks rmalloc for, in descriptors
AllocCount(old_count, config) == old_count + CountElems(config)

\* fill: what the rmalloc'ed memory holds; alloc_fails: rmalloc returns NULL
dw_dma_set_config(channel, config, fill, alloc_fails) ==
  /\ Enter
  /\ channel \in owned
  /\ AllocCount(desc_count[channel], config) <= MaxDescCount
  /\ LET count == AllocCount(desc_count[channel], config)
         ev == << Ev("desc_count", channel, count), Ev("rmalloc", channel, count) >>
     IN /\ desc_count' = [desc_count EXCEPT ![channel] = count]
        /\ IF ~alloc_fails
             THEN /\ lli' = [lli EXCEPT
                              ![channel] = BuildLli(channel, config, count, fill)]
                  /\ cfg_hi' = [cfg_hi EXCEPT ![channel] = CfgHi(@, config)]
                  /\ cfg_lo' = [cfg_lo EXCEPT ![channel] =
                                 @ \ (DWC_CFGL_RELOAD_SAR \cup DWC_CFGL_RELOAD_DAR)]
                  /\ last' = Call("set_config", channel, 0, ev)
                  /\ UNCHANGED halted
             ELSE \* rmalloc returned NULL and the driver writes through it:
                  \* the stores fault, or land in low memory and are lost
                  /\ lli' = [lli EXCEPT ![channel] = <<>>]
                  /\ \/ /\ UNCHANGED halted
                        /\ cfg_hi' = [cfg_hi EXCEPT ![channel] = CfgHi(@, config)]
                        /\ cfg_lo' = [cfg_lo EXCEPT ![channel] =
                                 @ \ (DWC_CFGL_RELOAD_SAR \cup DWC_CFGL_RELOAD_DAR)]
                        /\ last' = Call("set_config", channel, 0, ev)
                     \/ /\ halted' = TRUE
                        /\ last' = Fault("set_config", channel, ev)
                        /\ UNCHANGED <<cfg_lo, cfg_hi>>
  /\ NotBoot
  /\ UNCHANGED <<status, cb, cb_data, work_pending, hw_vars, owned>>

(* ------------------------------------------------------------------ *)
(* set_cb                                                              *)
(* ------------------------------------------------------------------ *)

\* the callbacks and contexts clients register
CbFuncs == {"period_cb"}
CbDatas == {"stream"}

dw_dma_set_cb(channel, f, data) ==
  /\ Enter
  /\ channel \in owned
  /\ cb' = [cb EXCEPT ![channel] = f]
  /\ cb_data' = [cb_data EXCEPT ![channel] = data]
  /\ last' = Call("set_cb", channel, 0, <<>>)
  /\ NotBoot
  /\ UNCHANGED <<status, lli, desc_count, cfg_lo, cfg_hi>>
  /\ UNCHANGED <<work_pending, hw_vars, halted, owned>>

(* ------------------------------------------------------------------ *)
(* start                                                               *)
(* ------------------------------------------------------------------ *)

\* the five unmask writes of dw_dma_start, in the order of the code
UnmaskOrder == <<"TFR", "BLOCK", "SRC_TRAN", "DST_TRAN", "ERR">>

\* StartEvents with the channel enabled right after CTL and CFG are
\* programmed, before the status changes and the interrupts are unmasked.
StartEvents_EnableEarly(channel, head) ==
  << Ev("DW_SAR", channel, head.sar),
     Ev("DW_DAR", channel, head.dar),
     Ev("DW_LLP", channel, head.llp),
     Ev("DW_CTRL_LOW", channel, head.ctrl_lo),
     Ev("DW_CTRL_HIGH", channel, head.ctrl_hi),
     Ev("DW_CFG_LOW", channel, cfg_lo[channel]),
     Ev("DW_CFG_HIGH", channel, cfg_hi[channel]),
     Ev("DW_DMA_CHAN_EN", channel, CHAN_ENABLE(channel)),
     Ev("status", channel, DMA_STATUS_RUNNING) >>
  \o [k \in 1 .. 5 |-> Ev("DW_MASK_" \o UnmaskOrder[k], channel, INT_UNMASK(channel))]

\* the accesses of dw_dma_start, in program order, with head = *chan[].lli
StartEvents(channel, head) ==
  << Ev("DW_SAR", channel, head.sar),
     Ev("DW_DAR", channel, head.dar),
     Ev("DW_LLP", channel, head.llp),
     Ev("DW_CTRL_LOW", channel, head.ctrl_lo),
     Ev("DW_CTRL_HIGH", channel, head.ctrl_hi),
     Ev("DW_CFG_LOW", channel, cfg_lo[channel]),
     Ev("DW_CFG_HIGH", channel, cfg_hi[channel]),
     Ev("status", channel, DMA_STATUS_RUNNING) >>
  \o [k \in 1 .. 5 |-> Ev("DW_MASK_" \o UnmaskOrder[k], channel, INT_UNMASK(channel))]
  \o << Ev("DW_DMA_CHAN_EN", channel, CHAN_ENABLE(channel)) >>

\* the state dw_dma_start leaves, having read `head` through chan[].lli
StartEffect(channel, head) ==
  /\ cfg_low_reg' = [cfg_low_reg EXCEPT ![channel] = cfg_lo[channel]]
  /\ status' = [status EXCEPT ![channel] = DMA_STATUS_RUNNING]
  /\ int_unmasked' =
       [k \in IntClasses |-> WeWrite(int_unmasked[k], INT_UNMASK(channel))]
  /\ chan_en' = WeWrite(chan_en, CHAN_ENABLE(channel))
  /\ last' = Call("start", channel, 0, StartEvents(channel, head))
  /\ UNCHANGED halted

dw_dma_start(channel) ==
  /\ Enter
  /\ channel \in owned
  /\ IF lli[channel] # <<>>
       THEN StartEffect(channel, lli[channel][1])
       ELSE \* chan[].lli is NULL and the driver reads through it: the loads
            \* fault, or return whatever low memory holds
            \/ \E head \in Fills : StartEffect(channel, head)
            \/ /\ halted' = TRUE
               /\ last' = Fault("start", channel, <<>>)
               /\ UNCHANGED <<status, hw_vars>>
  /\ NotBoot
  /\ UNCHANGED <<lli, desc_count, cfg_lo, cfg_hi, cb, cb_data, work_pending, owned>>

(* ------------------------------------------------------------------ *)
(* stop / drain                                                        *)
(* ------------------------------------------------------------------ *)

\* StopBits with the bits of dw_dma_drain
StopBits_WithDrain == {DW_CFG_CH_SUSPEND, DW_CFG_CH_DRAIN}

\* the mask (and value) dw_dma_stop hands to io_reg_update_bits
StopBits == {DW_CFG_CH_SUSPEND}

\* the mask (and value) dw_dma_drain hands to io_reg_update_bits
DrainBits == {DW_CFG_CH_SUSPEND, DW_CFG_CH_DRAIN}

\* Suspend the channel, mark it draining, queue the drain work.  The
\* read-modify-write also reads the FIFO_EMPTY status and writes it back;
\* the bit is read-only, so the word is followed in its writable bits.
Suspend(op, channel, bits) ==
  LET word == io_reg_update_bits(CfgLowRead(channel, {}), bits, bits) IN
  /\ cfg_low_reg' = [cfg_low_reg EXCEPT ![channel] = word]
  /\ status' = [status EXCEPT ![channel] = DMA_STATUS_DRAINING]
  /\ work_pending' = TRUE
  /\ last' = Call(op, channel, 0,
       << Ev("read DW_CFG_LOW", channel, CfgLowRead(channel, {})),
          Ev("DW_CFG_LOW", channel, word),
          Ev("status", channel, DMA_STATUS_DRAINING),
          Ev("work_schedule_default", channel, 1) >>)
  /\ NotBoot
  /\ UNCHANGED <<lli, desc_count, cfg_lo, cfg_hi, cb, cb_data>>
  /\ UNCHANGED <<chan_en, int_unmasked, halted, owned>>

dw_dma_stop(channel) ==
  /\ Enter
  /\ channel \in owned
  /\ Suspend("stop", channel, StopBits)

dw_dma_drain(channel) ==
  /\ Enter
  /\ channel \in owned
  /\ Suspend("drain", channel, DrainBits)

(* ------------------------------------------------------------------ *)
(* the drain work                                                      *)
(* ------------------------------------------------------------------ *)

\* dw-dma.c:217: the work looks at a channel when this is non-zero
StillDraining(st) == BitAnd(st, DMA_STATUS_DRAINING) # 0

\* dw-dma.c:222: the FIFO of channel i reads empty
FifoEmpty(i, empty) == DW_CFG_CH_FIFO_EMPTY \in CfgLowRead(i, empty)

\* dw-dma.c:225-226: the word the work writes to DW_DMA_CHAN_EN for channel i
DisableWord(en, i) ==
  io_reg_update_bits(WeRead(en), CHAN_DISABLE(i), CHAN_DISABLE(i))

\* dw-dma.c:227: the status the work leaves in a drained channel
Drained(st) == BitClear(st, DMA_STATUS_DRAINING)

\* the loop of dw_dma_fifo_work from channel i on, with DW_DMA_CHAN_EN
\* holding en: the register after the loop, and the accesses in order
RECURSIVE FifoScan(_, _, _)
FifoScan(i, en, empty) ==
  IF i >= DW_MAX_CHAN THEN [en |-> en, ev |-> <<>>]
  ELSE IF ~StillDraining(status[i]) THEN FifoScan(i + 1, en, empty)
  ELSE IF FifoEmpty(i, empty)
    THEN LET word == DisableWord(en, i)
             rest == FifoScan(i + 1, WeWrite(en, word), empty)
         IN [en |-> rest.en,
             ev |-> << Ev("read DW_CFG_LOW", i, CfgLowRead(i, empty)),
                       Ev("read DW_DMA_CHAN_EN", i, WeRead(en)),
                       Ev("DW_DMA_CHAN_EN", i, word),
                       Ev("status", i, Drained(status[i])) >> \o rest.ev]
    ELSE LET rest == FifoScan(i + 1, en, empty)
         IN [en |-> rest.en,
             ev |-> << Ev("read DW_CFG_LOW", i, CfgLowRead(i, empty)),
                       Ev("schedule", i, 1) >> \o rest.ev]

\* What dw_dma_fifo_work can return.  `schedule` is assigned (1) only for a
\* draining channel whose FIFO is not empty and is never initialised, so
\* without such a channel the result depends on what the stack held.
FifoWorkReturns(empty) ==
  IF \E i \in Chans : StillDraining(status[i]) /\ ~FifoEmpty(i, empty)
    THEN {1}
    ELSE {0, 1}

\* empty: the channels whose FIFO the hardware reports empty during this run
dw_dma_fifo_work(empty) ==
  /\ Enter
  /\ work_pending
  /\ LET r == FifoScan(0, chan_en, empty) IN
       /\ chan_en' = r.en
       /\ status' = [i \in Chans |->
                       IF StillDraining(status[i]) /\ FifoEmpty(i, empty)
                         THEN Drained(status[i]) ELSE status[i]]
       /\ \E ret \in FifoWorkReturns(empty) :
            /\ last' = Call("fifo_work", -1, ret, r.ev)
            \* the work queue runs the work again when it returns non-zero
            /\ work_pending' = (ret # 0)
  /\ NotBoot
  /\ UNCHANGED <<lli, desc_count, cfg_lo, cfg_hi, cb, cb_data>>
  /\ UNCHANGED <<int_unmasked, cfg_low_reg, halted, owned>>

(* ------------------------------------------------------------------ *)
(* the interrupt handler                                               *)
(* ------------------------------------------------------------------ *)

\* dw-dma.c:389: the handler serves channel i
Served(i) == status[i] # DMA_STATUS_FREE /\ cb[i] # NULL

\* IrqScan with the two statements of the loop body swapped: the callback
\* runs before the block interrupt of its channel is masked.
RECURSIVE IrqScan_CbBeforeMask(_)
IrqScan_CbBeforeMask(i) ==
  IF i >= DW_MAX_CHAN THEN <<>>
  ELSE IF Served(i)
    THEN << Ev("cb", i, <<cb[i], cb_data[i]>>),
            Ev("DW_MASK_BLOCK", i, INT_MASK(i)) >> \o IrqScan_CbBeforeMask(i + 1)
    ELSE IrqScan_CbBeforeMask(i + 1)

\* dw-dma.c:388-394: the accesses and calls of the loop from channel i on
RECURSIVE IrqScan(_)
IrqScan(i) ==
  IF i >= DW_MAX_CHAN THEN <<>>
  ELSE IF Served(i)
    THEN << Ev("DW_MASK_BLOCK", i, INT_MASK(i)),
            Ev("cb", i, <<cb[i], cb_data[i]>>) >> \o IrqScan(i + 1)
    ELSE IrqScan(i + 1)

\* IrqEvents with the test of dw-dma.c:385-386 lost: the loop runs whatever
\* DW_STATUS_BLOCK reads.
IrqEvents_NoZeroCheck(status_block) ==
  << Ev("interrupt_disable", -1, 0), Ev("read DW_STATUS_BLOCK", -1, status_block) >>
  \o IrqScan(0)
  \o << Ev("interrupt_clear", -1, 0), Ev("interrupt_enable", -1, 0) >>

\* the accesses and calls of dw_dma_irq_handler, in program order, when
\* DW_STATUS_BLOCK reads status_block
IrqEvents(status_block) ==
  << Ev("interrupt_disable", -1, 0), Ev("read DW_STATUS_BLOCK", -1, status_block) >>
  \o (IF status_block = {} THEN <<>> ELSE IrqScan(0))
  \o << Ev("interrupt_clear", -1, 0), Ev("interrupt_enable", -1, 0) >>

\* DW_MASK_BLOCK after the handler
IrqMaskBlock(status_block) ==
  IF status_block = {} THEN int_unmasked["BLOCK"]
  ELSE {c \in int_unmasked["BLOCK"] : ~Served(c)}

\* status_block: the channels whose bit DW_STATUS_BLOCK shows (raw status
\* and'ed with the mask register, so only unmasked channels)
dw_dma_irq_handler(status_block) ==
  /\ Enter
  /\ status_block \subseteq int_unmasked["BLOCK"]
  /\ int_unmasked' = [int_unmasked EXCEPT !["BLOCK"] = IrqMaskBlock(status_block)]
  /\ last' = Call("irq_handler", -1, 0, IrqEvents(status_block))
  /\ NotBoot
  /\ UNCHANGED <<chan_vars, work_pending, chan_en, cfg_low_reg>>
  /\ UNCHANGED <<halted, owned>>

(* ------------------------------------------------------------------ *)
(* Specification                                                       *)
(* ------------------------------------------------------------------ *)

\* the directions the clients of the whole-driver specification use
SpecDirs == {DMA_DIR_MEM_TO_MEM}

Next ==
  \/ dw_dma_channel_get
  \/ \E c \in Chans : dw_dma_channel_put(c)
  \/ \E c \in Chans, config \in Configs(SpecDirs), fill \in Fills,
        alloc_fails \in BOOLEAN : dw_dma_set_config(c, config, fill, alloc_fails)
  \/ \E c \in Chans, f \in CbFuncs, d \in CbDatas : dw_dma_set_cb(c, f, d)
  \/ \E c \in Chans : dw_dma_stop(c)
  \/ \E c \in Chans : dw_dma_drain(c)
  \/ \E c \in Chans : dw_dma_start(c)
  \/ \E empty \in SUBSET Chans : dw_dma_fifo_work(empty)
  \/ \E sb \in SUBSET Chans : dw_dma_irq_handler(sb)

Spec == Init /\ [][Next]_vars

\* The chain builder on its own: clients get channels, configure them with
\* requests of every direction, and put them back.
NextConfig ==
  \/ dw_dma_channel_get
  \/ \E c \in Chans, config \in Configs(Directions), fill \in Fills :
        dw_dma_set_config(c, config, fill, FALSE)
  \/ \E c \in Chans : dw_dma_channel_put(c)

InitConfig ==
  /\ Probed
  /\ budget = MaxConfigCalls

SpecConfig == InitConfig /\ [][NextConfig]_vars

\* One client takes a channel through its life on a freshly probed device:
\* the entry points run in the order of Script, with every input each of
\* them can be given at that point.
Script ==
  << "channel_get", "set_config", "set_cb", "start", "irq_handler", "stop",
     "fifo_work", "channel_put" >>

\* the next entry point of the script is op
At(op) == ncalls < Len(Script) /\ Script[ncalls + 1] = op

NextScenario ==
  \/ At("channel_get") /\ dw_dma_channel_get
  \/ At("set_config") /\ \E c \in Chans, config \in Configs(SpecDirs), fill \in Fills :
        dw_dma_set_config(c, config, fill, FALSE)
  \/ At("set_cb") /\ \E c \in Chans, f \in CbFuncs, d \in CbDatas : dw_dma_set_cb(c, f, d)
  \/ At("start") /\ \E c \in Chans : dw_dma_start(c)
  \/ At("irq_handler") /\ \E sb \in SUBSET Chans : dw_dma_irq_handler(sb)
  \/ At("stop") /\ \E c \in Chans : dw_dma_stop(c)
  \/ At("stop") /\ \E c \in Chans : dw_dma_drain(c)
  \/ At("fifo_work") /\ \E empty \in SUBSET Chans : dw_dma_fifo_work(empty)
  \/ At("channel_put") /\ \E c \in Chans : dw_dma_channel_put(c)

InitScenario ==
  /\ Probed
  /\ budget = Len(Script)

SpecScenario == InitScenario /\ [][NextScenario]_vars

\* The DMAC empties the FIFO of a suspended channel ...
FifoDrains(i) ==
  /\ DW_CFG_CH_SUSPEND \in cfg_low_reg[i]
  /\ i \notin fifo_empty
  /\ fifo_empty' = fifo_empty \cup {i}
  /\ UNCHANGED <<chan_vars, work_pending, hw_vars, halted, ghost_vars, last,
                 budget, pc, registered>>

\* ... and fills the FIFO of an enabled channel that is not suspended.
FifoFills(i) ==
  /\ i \in chan_en
  /\ DW_CFG_CH_SUSPEND \notin cfg_low_reg[i]
  /\ i \in fifo_empty
  /\ fifo_empty' = fifo_empty \ {i}
  /\ UNCHANGED <<chan_vars, work_pending, hw_vars, halted, ghost_vars, last,
                 budget, pc, registered>>

\* the work queue runs the drain work, which reads the FIFO status of the
\* hardware
DrainWork == dw_dma_fifo_work(fifo_empty)

\* Draining without a limit on the number of calls: clients get channels,
\* configure each once, start them when idle, stop and drain them and put
\* them back; the work queue runs the drain work whenever it is queued.
NextDrain ==
  \/ dw_dma_channel_get
  \/ \E c \in Chans, config \in Configs(SpecDirs) :
        lli[c] = <<>> /\ dw_dma_set_config(c, config, ZeroDesc, FALSE)
  \/ \E c \in Chans :
        lli[c] # <<>> /\ status[c] = DMA_STATUS_IDLE /\ dw_dma_start(c)
  \/ \E c \in Chans : dw_dma_stop(c)
  \/ \E c \in Chans : dw_dma_drain(c)
  \/ \E c \in Chans : dw_dma_channel_put(c)
  \/ DrainWork
  \/ \E i \in Chans : FifoDrains(i)
  \/ \E i \in Chans : FifoFills(i)

InitDrain ==
  /\ Probed
  /\ budget = 0

\* work_schedule_default: queued work is run
SpecDrain == InitDrain /\ [][NextDrain]_vars /\ WF_vars(DrainWork)

(* ------------------------------------------------------------------ *)
(* channel_get statement by statement, called from two threads         *)
(* ------------------------------------------------------------------ *)

\* what a step inside channel_get or channel_put leaves alone
InCall ==
  /\ ~halted
  /\ UNCHANGED <<lli, desc_count, cfg_lo, cfg_hi, cb_data>>
  /\ UNCHANGED <<work_pending, hw_vars, halted, ncalls, budget>>
  /\ UNCHANGED <<fifo_empty, registered>>
  /\ NotBoot

\* thread t calls dw_dma_channel_get: i = 0 (dw-dma.c:128); the driver
\* takes no lock
channel_get_call(t) ==
  /\ pc[t].at = "idle"
  /\ EnterCall
  /\ pc' = [pc EXCEPT ![t] = [@ EXCEPT !.at = "test", !.i = 0]]
  /\ UNCHANGED <<chan_vars, work_pending, hw_vars, halted, owned, last>>
  /\ UNCHANGED <<fifo_empty, registered>>
  /\ NotBoot

\* dw-dma.c:128-137: the loop test and the two tests of chan[i].status;
\* the loop runs off its end and the call returns -ENODEV (156)
channel_get_test(t) ==
  /\ pc[t].at = "test"
  /\ LET i == pc[t].i IN
       IF i >= DW_MAX_CHAN
         THEN /\ pc' = [pc EXCEPT ![t] = [@ EXCEPT !.at = "idle"]]
              /\ last' = Call("channel_get", -1, -ENODEV, <<>>)
         ELSE /\ pc' = [pc EXCEPT ![t] =
                   IF status[i] = DMA_STATUS_DRAINING THEN [@ EXCEPT !.i = i + 1]
                   ELSE IF status[i] = DMA_STATUS_FREE THEN [@ EXCEPT !.at = "claim"]
                   ELSE [@ EXCEPT !.i = i + 1]]
              /\ UNCHANGED last
  /\ UNCHANGED <<status, cb, owned>>
  /\ InCall

\* dw-dma.c:138-151: the store of DMA_STATUS_IDLE, the interrupt-clear
\* writes and the return of i; the thread holds channel i from then on
channel_get_claim(t) ==
  /\ pc[t].at = "claim"
  /\ LET i == pc[t].i IN
       /\ status' = [status EXCEPT ![i] = DMA_STATUS_IDLE]
       /\ owned' = owned \cup {i}
       /\ last' = Call("channel_get", -1, i, ClearWrites(i))
       /\ pc' = [pc EXCEPT ![t] = [@ EXCEPT !.at = "idle", !.held = @ \cup {i}]]
  /\ UNCHANGED cb
  /\ InCall

\* thread t puts back a channel it holds (dw-dma.c:163-164)
channel_put_by(t, i) ==
  /\ pc[t].at = "idle"
  /\ i \in pc[t].held
  /\ status' = [status EXCEPT ![i] = DMA_STATUS_FREE]
  /\ cb' = [cb EXCEPT ![i] = NULL]
  /\ owned' = owned \ {i}
  /\ last' = Call("channel_put", i, 0, <<>>)
  /\ pc' = [pc EXCEPT ![t] = [@ EXCEPT !.held = @ \ {i}]]
  /\ InCall

NextGet ==
  \E t \in Threads :
    \/ channel_get_call(t)
    \/ channel_get_test(t)
    \/ channel_get_claim(t)
    \/ \E i \in Chans : channel_put_by(t, i)

InitGet ==
  /\ Probed
  /\ budget = 0

SpecGet == InitGet /\ [][NextGet]_vars

(* ------------------------------------------------------------------ *)
(* set_cb and channel_put statement by statement, with the interrupt   *)
(* ------------------------------------------------------------------ *)

\* the <<cb, data>> pairs the clients register
Registrations == {<<"period_cb", "stream">>, <<"drain_cb", "pipeline">>}

\* no thread is inside the driver
Outside == \A t \in Threads : pc[t].at = "idle"

\* thread t calls dw_dma_set_cb(channel, f, data); dw-dma.c:365, the store
\* of chan[].cb
set_cb_store_cb(t, channel, f, data) ==
  /\ pc[t].at = "idle"
  /\ channel \in owned
  /\ EnterCall
  /\ cb' = [cb EXCEPT ![channel] = f]
  /\ pc' = [pc EXCEPT ![t] =
             [@ EXCEPT !.at = "set_cb", !.i = channel, !.f = f, !.data = data]]
  /\ registered' = [registered EXCEPT ![channel] = @ \cup {<<f, data>>}]
  /\ NotBoot
  /\ UNCHANGED <<status, lli, desc_count, cfg_lo, cfg_hi, cb_data>>
  /\ UNCHANGED <<work_pending, hw_vars, halted, owned, last, fifo_empty>>

\* dw-dma.c:366, the store of chan[].cb_data, and the return
set_cb_store_data(t) ==
  /\ pc[t].at = "set_cb"
  /\ ~halted
  /\ cb_data' = [cb_data EXCEPT ![pc[t].i] = pc[t].data]
  /\ pc' = [pc EXCEPT ![t] = [@ EXCEPT !.at = "idle"]]
  /\ last' = Call("set_cb", pc[t].i, 0, <<>>)
  /\ NotBoot
  /\ UNCHANGED <<status, lli, desc_count, cfg_lo, cfg_hi, cb>>
  /\ UNCHANGED <<work_pending, hw_vars, halted, owned, ncalls, budget>>
  /\ UNCHANGED <<fifo_empty, registered>>

\* thread t calls dw_dma_channel_put(channel); dw-dma.c:163, the store of
\* DMA_STATUS_FREE.  The owner is gone from here on.
channel_put_store_status(t, channel) ==
  /\ pc[t].at = "idle"
  /\ channel \in owned
  /\ EnterCall
  /\ status' = [status EXCEPT ![channel] = DMA_STATUS_FREE]
  /\ owned' = owned \ {channel}
  /\ registered' = [registered EXCEPT ![channel] = {}]
  /\ pc' = [pc EXCEPT ![t] = [@ EXCEPT !.at = "channel_put", !.i = channel]]
  /\ NotBoot
  /\ UNCHANGED <<lli, desc_count, cfg_lo, cfg_hi, cb, cb_data>>
  /\ UNCHANGED <<work_pending, hw_vars, halted, last, fifo_empty>>

\* dw-dma.c:164, the store of NULL in chan[].cb, and the return
channel_put_store_cb(t) ==
  /\ pc[t].at = "channel_put"
  /\ ~halted
  /\ cb' = [cb EXCEPT ![pc[t].i] = NULL]
  /\ pc' = [pc EXCEPT ![t] = [@ EXCEPT !.at = "idle"]]
  /\ last' = Call("channel_put", pc[t].i, 0, <<>>)
  /\ NotBoot
  /\ UNCHANGED <<status, lli, desc_count, cfg_lo, cfg_hi, cb_data>>
  /\ UNCHANGED <<work_pending, hw_vars, halted, owned, ncalls, budget>>
  /\ UNCHANGED <<fifo_empty, registered>>

\* One client thread gets channels, configures each once, starts them,
\* registers callbacks and puts the channels back; the interrupt preempts
\* it between any two statements.
NextCb ==
  \/ Outside /\ dw_dma_channel_get
  \/ \E c \in Chans, config \in Configs(SpecDirs) :
        Outside /\ lli[c] = <<>> /\ dw_dma_set_config(c, config, ZeroDesc, FALSE)
  \/ \E c \in Chans : Outside /\ lli[c] # <<>> /\ dw_dma_start(c)
  \/ \E c \in Chans, r \in Registrations : set_cb_store_cb("t1", c, r[1], r[2])
  \/ set_cb_store_data("t1")
  \/ \E c \in Chans : channel_put_store_status("t1", c)
  \/ channel_put_store_cb("t1")
  \/ \E sb \in SUBSET Chans : dw_dma_irq_handler(sb)

SpecCb == Init /\ [][NextCb]_vars

(* ------------------------------------------------------------------ *)
(* Properties                                                          *)
(* ------------------------------------------------------------------ *)

\* this step ran entry point op
Ran(op) == ncalls' = ncalls + 1 /\ last'.op = op

Min(S) == CHOOSE m \in S : \A x \in S : m <= x

\* the positions of last.ev that hold an event named e of channel c
EvAt(ev, e, c) == {k \in 1 .. Len(ev) : ev[k].e = e /\ ev[k].c = c}

\* the names of the register writes of an entry point
IsWrite(e) == e \in {"DW_SAR", "DW_DAR", "DW_LLP", "DW_CTRL_LOW", "DW_CTRL_HIGH",
                     "DW_CFG_LOW", "DW_CFG_HIGH", "DW_DMA_CHAN_EN",
                     "DW_MASK_TFR", "DW_MASK_BLOCK", "DW_MASK_SRC_TRAN",
                     "DW_MASK_DST_TRAN", "DW_MASK_ERR",
                     "DW_CLEAR_TFR", "DW_CLEAR_BLOCK", "DW_CLEAR_SRC_TRAN",
                     "DW_CLEAR_DST_TRAN", "DW_CLEAR_ERR"}

NoRegWrites(ev) == \A k \in 1 .. Len(ev) : ~IsWrite(ev[k].e)

\* C1: a run of the drain work that reads FIFO-empty for a draining channel
\* clears its channel-enable bit and its draining flag, keeps its chain and
\* callback, and leaves it not free, so that channel_get does not hand it
\* out again before the client puts it back.
C1_DrainCompletionKeepsChannel ==
  [][\A empty \in SUBSET Chans :
       dw_dma_fifo_work(empty) =>
         \A i \in Chans :
           (status[i] = DMA_STATUS_DRAINING /\ i \in empty) =>
             /\ i \notin chan_en'
             /\ ~StillDraining(status'[i])
             /\ lli'[i] = lli[i] /\ cb'[i] = cb[i]
             /\ status'[i] # DMA_STATUS_FREE
             /\ ChannelScan(status', 0) # i]_vars

\* C2: channel_get returns the lowest-indexed channel that is free at the
\* call (so never one that is draining, idle or running) and makes exactly
\* that channel idle; it fails with -ENODEV exactly when no channel is free.
C2_GetLowestFree ==
  [][dw_dma_channel_get =>
       LET free == {i \in Chans : status[i] = DMA_STATUS_FREE} IN
         IF free = {}
           THEN last'.ret = -ENODEV /\ status' = status
           ELSE /\ last'.ret = Min(free)
                /\ status' = [status EXCEPT ![Min(free)] = DMA_STATUS_IDLE]]_vars

\* C2 witness: channel_get skipped the draining channel 0 and returned 1
C2_Witness ==
  /\ last.op = "channel_get" /\ last.ret = 1
  /\ status[0] = DMA_STATUS_DRAINING /\ status[1] = DMA_STATUS_IDLE

\* C3: on a freshly probed device the k-th channel_get in a row returns
\* k - 1 for k <= DW_MAX_CHAN, and the next one fails with -ENODEV.
C3_BootGetsAscending ==
  boot_only =>
    \A k \in 1 .. Len(boot_gets) :
      boot_gets[k] = (IF k <= DW_MAX_CHAN THEN k - 1 ELSE -ENODEV)

\* C3 witness: DW_MAX_CHAN + 1 calls of channel_get right after probe
C3_Witness ==
  /\ boot_only /\ Len(boot_gets) = DW_MAX_CHAN + 1
  /\ boot_gets[DW_MAX_CHAN + 1] = -ENODEV

\* C4: a free channel has no descriptor chain and no callback.
C4_FreeChannelIsBare ==
  \A i \in Chans :
    status[i] = DMA_STATUS_FREE => lli[i] = <<>> /\ cb[i] = NULL

\* C5: start on a channel without a descriptor chain returns an error,
\* writes no register and leaves the channel's state as it was.
C5_StartUnconfiguredFails ==
  [][(Ran("start") /\ lli[last'.ch] = <<>>) =>
       /\ ~last'.fault /\ last'.ret # 0
       /\ NoRegWrites(last'.ev)
       /\ status' = status
       /\ UNCHANGED hw_vars]_vars

\* C6: set_config on a running or draining channel returns an error and
\* leaves the chain, the descriptor count, the shadow config words and the
\* state of the channel as they were.
C6_SetConfigRejectedWhenBusy ==
  [][(Ran("set_config")
        /\ status[last'.ch] \in {DMA_STATUS_RUNNING, DMA_STATUS_DRAINING}) =>
       /\ ~last'.fault /\ last'.ret # 0
       /\ lli' = lli /\ desc_count' = desc_count
       /\ cfg_lo' = cfg_lo /\ cfg_hi' = cfg_hi
       /\ status' = status]_vars

\* C7: the drain work asks to be run again exactly when a channel is still
\* draining after the run; run with no channel draining it returns 0 and
\* writes no register.
C7_RescheduleIffStillDraining ==
  [][Ran("fifo_work") =>
       /\ (last'.ret # 0) <=> (\E i \in Chans : StillDraining(status'[i]))
       /\ (\A i \in Chans : ~StillDraining(status[i])) =>
            (last'.ret = 0 /\ NoRegWrites(last'.ev))]_vars

\* the channels the interrupt handler has to serve
ServedSet == {i \in Chans : status[i] # DMA_STATUS_FREE /\ cb[i] # NULL}

\* C8: an interrupt with a non-zero block status masks the block interrupt
\* of every channel that is not free and has a callback and then calls that
\* callback once with its context; callbacks run in ascending channel
\* order, after interrupt_disable and before interrupt_clear and
\* interrupt_enable; no other channel is masked or called.
C8_IrqDispatchOrder ==
  [][(Ran("irq_handler") /\ last'.ev[2].v # {}) =>
       LET ev == last'.ev
           n == Len(ev)
           cbs == {k \in 1 .. n : ev[k].e = "cb"}
       IN /\ ev[1].e = "interrupt_disable"
          /\ ev[n - 1].e = "interrupt_clear"
          /\ ev[n].e = "interrupt_enable"
          /\ \A k \in 2 .. (n - 2) :
               ev[k].e \notin {"interrupt_disable", "interrupt_clear", "interrupt_enable"}
          /\ \A i \in ServedSet :
               /\ Cardinality(EvAt(ev, "cb", i)) = 1
               /\ \A k \in EvAt(ev, "cb", i) :
                    /\ ev[k].v = <<cb[i], cb_data[i]>>
                    /\ ev[k - 1].e = "DW_MASK_BLOCK"
                    /\ ev[k - 1].c = i
                    /\ ev[k - 1].v = INT_MASK(i)
               /\ i \notin int_unmasked'["BLOCK"]
          /\ \A i \in Chans \ ServedSet :
               /\ EvAt(ev, "cb", i) = {}
               /\ EvAt(ev, "DW_MASK_BLOCK", i) = {}
          /\ \A k1, k2 \in cbs : k1 < k2 => ev[k1].c < ev[k2].c]_vars

\* C8 witness: one interrupt served two channels
C8_Witness ==
  /\ last.op = "irq_handler"
  /\ EvAt(last.ev, "cb", 0) # {} /\ EvAt(last.ev, "cb", 1) # {}

\* C9: stop sets the suspend bit of config-low and nothing else, drain sets
\* the suspend and the drain bit; either makes exactly that channel
\* draining and queues the drain work.
C9_StopDrainSuspend ==
  [][\A op \in {"stop", "drain"} :
       Ran(op) =>
         LET c == last'.ch
             bits == IF op = "stop" THEN {DW_CFG_CH_SUSPEND}
                     ELSE {DW_CFG_CH_SUSPEND, DW_CFG_CH_DRAIN}
         IN /\ cfg_low_reg' = [cfg_low_reg EXCEPT ![c] = @ \cup bits]
            /\ status' = [status EXCEPT ![c] = DMA_STATUS_DRAINING]
            /\ work_pending'
            /\ last'.ret = 0]_vars

\* C9 witness: stop suspended a running, enabled channel without draining it
C9_Witness ==
  /\ last.op = "stop"
  /\ last.ch \in chan_en
  /\ cfg_low_reg[last.ch] = {DW_CFG_CH_SUSPEND}
  /\ status[last.ch] = DMA_STATUS_DRAINING
  /\ work_pending

\* C10: after a successful set_config the channel's descriptor count, and
\* the number of descriptors allocated for it, is the number of elements
\* of the request.
C10_DescCountIsSegmentCount ==
  [][\A c \in Chans, config \in Configs(SpecDirs), fill \in Fills :
       dw_dma_set_config(c, config, fill, FALSE) =>
         /\ desc_count'[c] = Len(config.elem_list)
         /\ Len(lli'[c]) = Len(config.elem_list)]_vars

\* the link-chain-enable flags of control-low
LlpFlags == DWC_CTLL_LLP_S_EN \cup DWC_CTLL_LLP_D_EN

\* C11: the chain set_config builds from N >= 1 elements: descriptor i
\* carries the source and destination of element i; every descriptor but
\* the last points at the next descriptor of the array and has both link
\* flags set; the last has link pointer 0 and both link flags clear.
C11_ChainLinks ==
  [][\A c \in Chans, config \in Configs(Directions), fill \in Fills :
       dw_dma_set_config(c, config, fill, FALSE) =>
         LET n == Len(config.elem_list)
             chain == lli'[c]
         IN /\ Len(chain) >= n
            /\ \A i \in 1 .. n :
                 /\ chain[i].sar = config.elem_list[i].src
                 /\ chain[i].dar = config.elem_list[i].dest
                 /\ IF i < n
                      THEN /\ chain[i].llp = LliAddr(c, i)
                           /\ LlpFlags \subseteq chain[i].ctrl_lo
                      ELSE /\ chain[i].llp = 0
                           /\ LlpFlags \cap chain[i].ctrl_lo = {}]_vars

\* C11 witness: a chain of MaxSegs descriptors built in memory that held
\* stale link flags
C11_Witness ==
  /\ last.op = "set_config" /\ ~last.fault
  /\ Len(lli[last.ch]) = MaxSegs
  /\ lli[last.ch][1].llp = LliAddr(last.ch, 1)
  /\ lli[last.ch][MaxSegs].llp = 0
  /\ lli[last.ch][MaxSegs].ctrl_hi = DWC_CTLH_DONE

\* C12: in the chain set_config builds, every descriptor, not only the
\* first, has the address-increment flags of the direction of the request
\* (source-increment and destination-fixed for memory-to-device), whatever
\* the number of elements.
C12_DirectionFlagsOnEveryDescriptor ==
  [][\A c \in Chans, config \in Configs(Directions), fill \in Fills :
       dw_dma_set_config(c, config, fill, FALSE) =>
         \A i \in 1 .. Len(config.elem_list) :
           DirFlags(config.direction) \subseteq lli'[c][i].ctrl_lo]_vars

\* C13: when the allocation of the descriptors fails, set_config returns an
\* error, writes no descriptor and leaves the channel as it was: chain,
\* descriptor count, shadow config words and state unchanged.
C13_AllocFailureLeavesChannel ==
  [][\A c \in Chans, config \in Configs(SpecDirs), fill \in Fills :
       dw_dma_set_config(c, config, fill, TRUE) =>
         /\ ~last'.fault /\ last'.ret # 0
         /\ lli' = lli /\ desc_count' = desc_count
         /\ cfg_lo' = cfg_lo /\ cfg_hi' = cfg_hi
         /\ status' = status]_vars

\* the position in ev of the one event named e of channel c
Pos(ev, e, c) == CHOOSE k \in EvAt(ev, e, c) : TRUE

\* C14: start on a channel that has a chain writes SAR, DAR, LLP and
\* control-low/high from the head of the chain and config-low/high from the
\* shadow words of the channel, then makes the channel running, then
\* unmasks its five interrupt classes, and sets the channel-enable bit as
\* its last step: the channel is not enabled while it is still idle or
\* while one of its interrupts is still masked.
C14_StartOrder ==
  [][(Ran("start") /\ lli[last'.ch] # <<>>) =>
       LET c == last'.ch
           ev == last'.ev
           head == lli[c][1]
           prog == << <<"DW_SAR", head.sar>>, <<"DW_DAR", head.dar>>,
                      <<"DW_LLP", head.llp>>,
                      <<"DW_CTRL_LOW", head.ctrl_lo>>,
                      <<"DW_CTRL_HIGH", head.ctrl_hi>>,
                      <<"DW_CFG_LOW", cfg_lo[c]>>, <<"DW_CFG_HIGH", cfg_hi[c]>> >>
           st == Pos(ev, "status", c)
           en == Pos(ev, "DW_DMA_CHAN_EN", c)
       IN /\ ~last'.fault /\ last'.ret = 0
          /\ \A k \in 1 .. Len(ev) : ev[k].c = c
          /\ \A k \in 1 .. Len(prog) :
               /\ Cardinality(EvAt(ev, prog[k][1], c)) = 1
               /\ ev[Pos(ev, prog[k][1], c)].v = prog[k][2]
               /\ Pos(ev, prog[k][1], c) < st
          /\ Cardinality(EvAt(ev, "status", c)) = 1
          /\ ev[st].v = DMA_STATUS_RUNNING
          /\ \A class \in IntClasses :
               /\ Cardinality(EvAt(ev, "DW_MASK_" \o class, c)) = 1
               /\ ev[Pos(ev, "DW_MASK_" \o class, c)].v = INT_UNMASK(c)
               /\ st < Pos(ev, "DW_MASK_" \o class, c)
               /\ Pos(ev, "DW_MASK_" \o class, c) < en
               /\ c \in int_unmasked'[class]
          /\ EvAt(ev, "DW_DMA_CHAN_EN", c) = {Len(ev)}
          /\ ev[en].v = CHAN_ENABLE(c)
          /\ status'[c] = DMA_STATUS_RUNNING
          /\ c \in chan_en']_vars

\* C14 witness: start ran on an idle channel holding a chain of two
\* descriptors and enabled it
C14_Witness ==
  /\ last.op = "start" /\ ~last.fault
  /\ Len(lli[last.ch]) = 2
  /\ last.ev[3].v = LliAddr(last.ch, 1)
  /\ status[last.ch] = DMA_STATUS_RUNNING
  /\ last.ch \in chan_en

\* C15: an interrupt for which DW_STATUS_BLOCK reads zero calls no
\* callback, writes no mask register and leaves every channel and every
\* mask as they were; it still clears and re-enables the interrupt line,
\* in that order, as its last two steps.
C15_IrqZeroStatus ==
  [][(Ran("irq_handler") /\ last'.ev[2].v = {}) =>
       LET ev == last'.ev
           n == Len(ev)
       IN /\ \A k \in 1 .. n : ev[k].e # "cb" /\ ~IsWrite(ev[k].e)
          /\ ev[1].e = "interrupt_disable"
          /\ ev[2].e = "read DW_STATUS_BLOCK"
          /\ ev[n - 1].e = "interrupt_clear"
          /\ ev[n].e = "interrupt_enable"
          /\ n = 4
          /\ UNCHANGED <<chan_vars, hw_vars, work_pending>>]_vars

\* C15 witness: the interrupt read a zero block status while a running
\* channel with a callback had its block interrupt unmasked
C15_Witness ==
  /\ last.op = "irq_handler"
  /\ last.ev[2].v = {}
  /\ \E i \in ServedSet :
       /\ status[i] = DMA_STATUS_RUNNING
       /\ i \in int_unmasked["BLOCK"]

\* C20: a free channel is disabled in DW_DMA_CHAN_EN, so channel_get never
\* hands out an enabled channel, whatever was done to the channel before
\* it became free.
C20_FreeChannelDisabled ==
  \A i \in Chans : status[i] = DMA_STATUS_FREE => i \notin chan_en

\* the drain work read config-low of channel i with FIFO_EMPTY set
SawFifoEmpty(ev, i) ==
  \E k \in EvAt(ev, "read DW_CFG_LOW", i) : DW_CFG_CH_FIFO_EMPTY \in ev[k].v

\* C16: on a freshly probed device channel_get returns 0; with a chain of
\* two descriptors, a callback and the channel started, an interrupt with
\* block bit 0 set calls that callback exactly once; after stop and one
\* run of the drain work that reads FIFO-empty the channel is disabled, no
\* longer draining and still has its chain; after channel_put it is free
\* and has no callback.
C16_EndToEnd ==
  /\ last.op = "channel_get" => last.ret = 0
  /\ (last.op = "irq_handler" /\ last.ev[2].v = {0} /\ Len(lli[0]) = 2) =>
       /\ Cardinality(EvAt(last.ev, "cb", 0)) = 1
       /\ \A k \in EvAt(last.ev, "cb", 0) : last.ev[k].v = <<cb[0], cb_data[0]>>
       /\ cb[0] \in CbFuncs
  /\ (last.op = "fifo_work" /\ SawFifoEmpty(last.ev, 0) /\ Len(lli[0]) = 2
        /\ cfg_low_reg[0] = {DW_CFG_CH_SUSPEND} /\ 0 \notin int_unmasked["BLOCK"]) =>
       /\ 0 \notin chan_en
       /\ ~StillDraining(status[0])
       /\ Len(lli[0]) = 2
  /\ last.op = "channel_put" =>
       /\ status[0] = DMA_STATUS_FREE
       /\ cb[0] = NULL

\* C17: drain liveness.  With the work queue running queued work, every
\* draining channel whose FIFO reports empty gets its channel-enable bit
\* cleared and leaves the draining state.
C17_DrainLiveness ==
  \A i \in Chans :
    (status[i] = DMA_STATUS_DRAINING /\ i \in fifo_empty)
      ~> (i \notin chan_en /\ ~StillDraining(status[i]))

\* C18: two threads that call channel_get at the same time never get the
\* same channel: a channel is held by at most one thread between the
\* channel_get that returned it and the channel_put that gives it back.
C18_GetIsExclusive ==
  \A t1, t2 \in Threads : t1 # t2 => pc[t1].held \cap pc[t2].held = {}

\* C19: the context the interrupt handler passes to a callback is the one
\* registered together with that callback by one set_cb call of the
\* present owner of the channel, also when the interrupt comes in the
\* middle of set_cb or channel_put, or after the channel was put back and
\* got again.
C19_CallbackGetsItsContext ==
  [][\A sb \in SUBSET Chans :
       dw_dma_irq_handler(sb) =>
         \A k \in 1 .. Len(last'.ev) :
           last'.ev[k].e = "cb" => last'.ev[k].v \in registered[last'.ev[k].c]]_vars

====
